---- MODULE Spec2Model ----
(***************************************************************************)
(* A model of the emailer package: the Sender and EmailJob values          *)
(* (emailer/EmailJob.py) and the EmailSender queue worker, transmitter and *)
(* dispatcher (emailer/EmailSender.py).                                    *)
(*                                                                         *)
(* Python values.  An optional value is a sequence of length at most one:  *)
(* <<>> is None and <<v>> is the value v.  An object is a record of its    *)
(* attributes (named as in the source, with the leading underscore); a     *)
(* dict is a record of its keys.  An attribute that was never assigned is  *)
(* a field missing from the record.  A str that the code takes apart (the  *)
(* sender's display name and address) is a sequence of characters; the     *)
(* other strs are TLA+ strings.  A call either returns a value,            *)
(* [ok |-> TRUE, val |-> v], or raises, [ok |-> FALSE, exc |-> name].      *)
(***************************************************************************)
EXTENDS Integers, Sequences, FiniteSets, Bags, TLC

None == <<>>
Some(v) == <<v>>

Returned(v) == [ok |-> TRUE, val |-> v]
Raised(e) == [ok |-> FALSE, exc |-> e]

\* dict.get(key): the value stored under key, None when the key is missing
Get(data, key) == IF key \in DOMAIN data THEN data[key] ELSE None

(***************************************************************************)
(* str operations used by the source                                       *)
(***************************************************************************)
\* c in s
Contains(s, c) == \E i \in 1..Len(s) : s[i] = c

\* a replace that finds nothing to replace
RemoveNothing(s, c) == s

\* s.replace(c, "")
Remove(s, c) == SelectSeq(s, LAMBDA ch : ch # c)

\* the places of c in s
Places(s, c) == {i \in 1..Len(s) : s[i] = c}

\* the k-th place of c in s; 0 for k = 0 and Len(s) + 1 past the last one
Place(s, c, k) ==
    IF k = 0 THEN 0
    ELSE IF k > Cardinality(Places(s, c)) THEN Len(s) + 1
    ELSE CHOOSE i \in Places(s, c) : Cardinality({j \in Places(s, c) : j < i}) = k - 1

\* s.split(c): the pieces of s between the occurrences of c
Split(s, c) ==
    [k \in 1..(Cardinality(Places(s, c)) + 1) |->
        SubSeq(s, Place(s, c, k - 1) + 1, Place(s, c, k) - 1)]

\* s.strip(): s from its first to its last character that is no space
Strip(s) ==
    LET kept == {i \in 1..Len(s) : s[i] # " "}
    IN  IF kept = {} THEN <<>>
        ELSE SubSeq(s, CHOOSE i \in kept : \A j \in kept : i <= j,
                       CHOOSE i \in kept : \A j \in kept : j <= i)

RECURSIVE Join(_, _)
\* sep.join(parts), kept as the sequence of its pieces
Join(sep, parts) ==
    IF parts = <<>> THEN <<>>
    ELSE IF Len(parts) = 1 THEN <<parts[1]>>
    ELSE <<parts[1], sep>> \o Join(sep, Tail(parts))

(***************************************************************************)
(* Sender (EmailJob.py)                                                    *)
(***************************************************************************)
Sender(email_server, email_port, username, password, use_tls, email_address, display_name) ==
    [_email_server |-> email_server, _email_port |-> email_port,
     _username |-> username, _password |-> password, _use_tls |-> use_tls,
     _email_address |-> email_address, _display_name |-> display_name]

Sender_to_dict(self) ==
    [email_server |-> self._email_server, email_port |-> self._email_port,
     username |-> self._username, password |-> self._password,
     use_tls |-> self._use_tls, email_address |-> self._email_address,
     display_name |-> self._display_name]

\* the truth value of an optional str: None and "" are false
StrTruthy(o) == o # None /\ o[1] # <<>>

\* the display name and the bracketed address with no space between them
get_sender_address_unspaced(self) ==
    IF StrTruthy(self._display_name)
    THEN self._display_name[1] \o <<"<">> \o self._email_address \o <<">">>
    ELSE self._email_address

\* "Display Name <email_address>" when the display name is truthy, else the address
get_sender_address(self) ==
    IF StrTruthy(self._display_name)
    THEN self._display_name[1] \o <<" ", "<">> \o self._email_address \o <<">">>
    ELSE self._email_address

Sender_from_dict(data) ==
    Sender(Get(data, "email_server"), Get(data, "email_port"), Get(data, "username"),
           Get(data, "password"), Get(data, "use_tls"), Get(data, "email_address"),
           Get(data, "display_name"))

(***************************************************************************)
(* EmailJob (EmailJob.py)                                                  *)
(***************************************************************************)
\* the parameters EmailJob.__init__ accepts besides self
EmailJobParams == {"subject", "recipients", "body", "html", "sender"}

\* EmailJob.__init__: five attributes are assigned, _extra_headers is not
EmailJob(subject, recipients, body, html, sender) ==
    [_subject |-> subject, _recipients |-> recipients, _body |-> body,
     _html |-> html, _sender |-> sender]

\* the call EmailJob(**kwargs): Python binds the keywords to the parameters of
\* __init__ and raises TypeError for a keyword that names none of them
EmailJobCall(kwargs) ==
    IF DOMAIN kwargs \subseteq EmailJobParams
    THEN Returned(EmailJob(kwargs.subject, kwargs.recipients, kwargs.body,
                           kwargs.html, kwargs.sender))
    ELSE Raised("TypeError")

\* a Sender object is always true (the class defines no __bool__ or __len__)
EmailJob_to_dict(self) ==
    [subject |-> self._subject, recipients |-> self._recipients,
     body |-> self._body, html |-> self._html,
     sender |-> IF self._sender # None
                THEN Some(Sender_to_dict(self._sender[1])) ELSE None]

\* a dict is true when it has a key
DictTruthy(o) == o # None /\ DOMAIN o[1] # {}

EmailJob_from_dict(data) ==
    LET sender_data == Get(data, "sender")
        sender == IF DictTruthy(sender_data)
                  THEN Some(Sender_from_dict(sender_data[1])) ELSE None
    IN  EmailJob(Get(data, "subject"), Get(data, "recipients"), Get(data, "body"),
                 Get(data, "html"), sender)

\* a str stored where the code expects a dict, kept apart from a dict by its
\* one field
StrValue(text) == [str |-> text]

\* the value has the method get: it is a dict
IsDict(v) == "str" \notin DOMAIN v

\* EmailJob.from_dict(data) as a call: Sender.from_dict calls data.get on the
\* stored sender when that is true, which a str does not have
EmailJob_from_dict_call(data) ==
    LET sender_data == Get(data, "sender")
    IN  IF DictTruthy(sender_data) /\ ~IsDict(sender_data[1])
        THEN Raised("AttributeError")
        ELSE Returned(EmailJob_from_dict(data))

(***************************************************************************)
(* fix_from_header (EmailSender.py)                                        *)
(***************************************************************************)
\* the characters email.header's q encoding leaves as they are
QSafe == {"T", "a", "b", "x"}

\* one character in the q encoding of RFC 2047: a space is "_", an unsafe
\* character is "=" and its two hex digits
QChar(c) ==
    IF c \in QSafe THEN <<c>>
    ELSE IF c = " " THEN <<"_">>
    ELSE IF c = "<" THEN <<"=3C">>
    ELSE IF c = ">" THEN <<"=3E">>
    ELSE IF c = "@" THEN <<"=40">>
    ELSE <<"=", c>>

RECURSIVE QEncode(_)
QEncode(s) == IF s = <<>> THEN <<>> ELSE QChar(Head(s)) \o QEncode(Tail(s))

\* Header(name, "utf-8").encode(): one encoded word, nothing for the empty name
HeaderEncode(name) ==
    IF name = <<>> THEN <<>> ELSE <<"=?utf-8?q?">> \o QEncode(name) \o <<"?=">>

\* email.utils.formataddr((name, address)); an encoded word holds no character
\* formataddr quotes or escapes
formataddr(name, address) ==
    IF name # <<>> THEN name \o <<" ", "<">> \o address \o <<">">> ELSE address

fix_from_header(from_address) ==
    IF from_address = None THEN Returned(None)
    ELSE LET s == from_address[1]
             bracketed == Contains(s, "<") /\ Contains(s, ">")
             parts == Split(s, "<")
         IN  IF bracketed /\ Len(parts) # 2
             THEN Raised("ValueError")   \* name, address = ... cannot unpack
             ELSE LET name == IF bracketed THEN parts[1] ELSE <<>>
                      address == IF bracketed THEN Remove(parts[2], ">") ELSE s
                  IN  Returned(Some(formataddr(HeaderEncode(Strip(name)), address)))

(***************************************************************************)
(* Bounds and the values the model draws its inputs from                   *)
(***************************************************************************)
\* documents in the queue store before the first step
MaxDocs == 2
\* foreground calls (queue_email, send_now, send_email) in one behaviour
MaxCalls == 1
\* worker threads that may be started on the one queue store
NumWorkers == 2

Workers == 1..NumWorkers
DocIds == 1..(MaxDocs + MaxCalls)

SenderA == Sender("smtp.a", 587, "ua", "pa", TRUE, <<"a", "@", "x">>, Some(<<"T">>))
\* a display name holding "<": its identity has two "<"
SenderBad == Sender("smtp.a", 587, "ua", "pa", TRUE, <<"a", "@", "x">>, Some(<<"<">>))

\* the configuration mapping handed to the constructor as _config_2
ConfigFull ==
    [MAIL_SERVER |-> "smtp.d", MAIL_PORT |-> 25, MAIL_USERNAME |-> "ud",
     MAIL_PASSWORD |-> "pd", MAIL_USE_TLS |-> FALSE,
     MAIL_DEFAULT_SENDER |-> <<"b", "@", "x">>]
ConfigEmpty == <<>>
Configs == {ConfigEmpty, ConfigFull}

SenderChoices == {None, Some(SenderA), Some(SenderBad)}
ExtraHeaderChoices == {None, Some(<<<<"Reply-To", "r@y.com">>>>)}

\* the template directory: welcome.tmpl renders, broken.tmpl loads but its
\* rendering raises, any other name is not found
TemplateNames == {"welcome.tmpl", "broken.tmpl", "missing.tmpl"}
Contexts == {"Jo", "Al"}

\* Environment.get_template(name)
get_template(template_name) ==
    IF template_name \in {"welcome.tmpl", "broken.tmpl"}
    THEN Returned(template_name) ELSE Raised("TemplateNotFound")

\* Template.render(context): the rendered text is a function of both
render(template, context) ==
    IF template = "broken.tmpl" THEN Raised("UndefinedError")
    ELSE Returned(<<template, context>>)

\* the documents a queue store may hold: the persisted shape
StoredDocs ==
    {EmailJob_to_dict(EmailJob("Hi", r, b, b, s)) :
        r \in {<<"x@y.com", "z@y.com">>}, b \in {Some(<<"welcome.tmpl", "Jo">>)},
        s \in SenderChoices}

\* the document the store keeps for data: the store adds the _id
WithId(data, id) == data @@ ("_id" :> id)

(***************************************************************************)
(* The state                                                               *)
(***************************************************************************)
VARIABLES
    default_sender,  \* EmailSender.default_sender: None or a Sender
    queue,           \* the email_queue collection: a set of documents
    pc,              \* where each worker thread is in process_queue
    cur,             \* each worker's email_job_data: None or the popped document
    popped,          \* how often find_one_and_delete returned each document
    handed,          \* how often a worker called send_email for each document
    smtp,            \* the SMTP sessions opened so far, in order
    errlog,          \* the logger.error records so far: a bag
    email_txt,       \* the content of the file email.txt: None or a message
    last,            \* the last foreground call and how it ended
    ncalls,          \* the number of foreground calls so far
    rt_job,          \* a job handed to to_dict, None before
    rt_back,         \* from_dict of that job's to_dict, None before
    arg,             \* the argument of a function called on its own, None otherwise
    res              \* what that call gave, None before

vars == <<default_sender, queue, pc, cur, popped, handed, smtp, errlog,
          email_txt, last, ncalls, rt_job, rt_back, arg, res>>

(***************************************************************************)
(* EmailSender.send_email                                                  *)
(***************************************************************************)
\* where the SMTP exchange may raise: nowhere, or at one of its steps (the
\* server or the network decides); the write of email.txt succeeds
FailPoints == {"none", "connect", "starttls", "login", "sendmail"}

\* what one send_email call does: the SMTP sessions it opens, the errors it
\* logs, what it writes to email.txt (None: no write), the exception that
\* leaves it (None: it returns)
Effect(sessions, errors, file, raises) ==
    [sessions |-> sessions, errors |-> errors, file |-> file, raises |-> raises]

\* the except clause: the exception is logged and send_email returns
Caught(sessions, exc) ==
    Effect(sessions, SetToBag({<<"Failed to send email", exc>>}), None, None)

\* the job's own sender, else the default sender
ResolveSender(email_job) ==
    IF email_job._sender # None THEN email_job._sender ELSE default_sender

NoSenderRecord == <<"No sender information provided", "fallback failed">>

\* the check made before the try block: the exception reaches the caller
NoSenderRaised == Effect(<<>>, EmptyBag, None, Some("ValueError"))

\* no sender at all: an error is logged and send_email returns
NoSender ==
    Effect(<<>>, SetToBag({NoSenderRecord}), None, None)

\* an optional dict or str is true when it is not None and not empty
Truthy(o) == o # None /\ o[1] # <<>>

\* a message in which an extra header takes the place of the required header
\* of the same name
BuildMessageOverriding(email_job, fixed_from) ==
    LET extra == IF Truthy(email_job._extra_headers)
                 THEN email_job._extra_headers[1] ELSE <<>>
        required == <<<<"Subject", email_job._subject>>, <<"From", fixed_from>>,
                      <<"To", Join(", ", email_job._recipients)>>>>
        Over(h) == IF \E k \in 1..Len(extra) : extra[k][1] = h[1]
                   THEN extra[CHOOSE k \in 1..Len(extra) : extra[k][1] = h[1]]
                   ELSE h
    IN  [headers |-> [i \in 1..3 |-> Over(required[i])]
                     \o SelectSeq(extra, LAMBDA e : \A i \in 1..3 : required[i][1] # e[1]),
         parts |-> (IF Truthy(email_job._body)
                    THEN <<<<"plain", email_job._body[1]>>>> ELSE <<>>)
                   \o (IF Truthy(email_job._html)
                       THEN <<<<"html", email_job._html[1]>>>> ELSE <<>>)]

\* the message: Subject, From, To, then the extra headers in their order
\* (msg[key] = value appends a header field), then the plain and html parts
BuildMessage(email_job, fixed_from) ==
    [headers |-> <<<<"Subject", email_job._subject>>, <<"From", fixed_from>>,
                   <<"To", Join(", ", email_job._recipients)>>>>
                 \o (IF Truthy(email_job._extra_headers)
                     THEN email_job._extra_headers[1] ELSE <<>>),
     parts |-> (IF Truthy(email_job._body)
                THEN <<<<"plain", email_job._body[1]>>>> ELSE <<>>)
               \o (IF Truthy(email_job._html)
                   THEN <<<<"html", email_job._html[1]>>>> ELSE <<>>)]

\* one SMTP session: the steps taken in order, the step that raised (None:
\* none did), the credentials given to login, the envelope given to sendmail
Session(sender, steps, failed, login, mail) ==
    [host |-> sender._email_server, port |-> sender._email_port,
     steps |-> steps, failed |-> failed, login |-> login, mail |-> mail]

\* an exchange that logs in before it upgrades the connection
TransmitLoginFirst(sender, email_job, msg, fail) ==
    LET tls == IF sender._use_tls THEN <<"starttls">> ELSE <<>>
        cred == Some(<<sender._username, sender._password>>)
        S(steps, login, mail) == Session(sender, steps, Some(fail), login, mail)
    IN  IF fail = "connect" THEN Caught(<<S(<<"connect">>, None, None)>>, "SMTPConnectError")
        ELSE IF fail = "login"
             THEN Caught(<<S(<<"connect", "login">>, cred, None)>>, "SMTPAuthenticationError")
        ELSE IF fail = "starttls" /\ sender._use_tls
             THEN Caught(<<S(<<"connect", "login", "starttls">>, cred, None)>>, "SMTPException")
        ELSE LET mail == Some([from_addr |-> sender._username,
                               to_addrs |-> email_job._recipients, msg |-> msg])
                 steps == <<"connect", "login">> \o tls \o <<"sendmail">>
             IN  IF fail = "sendmail"
                 THEN Effect(<<S(steps, cred, mail)>>,
                             SetToBag({<<"Failed to send email", "SMTPRecipientsRefused">>}),
                             Some(msg), None)
                 ELSE Effect(<<Session(sender, steps, None, cred, mail)>>, EmptyBag,
                             Some(msg), None)

\* the with block: connect, starttls when the sender asks for TLS, login,
\* the message written to email.txt, sendmail; the first step that raises
\* ends the exchange
Transmit(sender, email_job, msg, fail) ==
    LET tls == IF sender._use_tls THEN <<"starttls">> ELSE <<>>
        cred == Some(<<sender._username, sender._password>>)
        S(steps, login, mail) == Session(sender, steps, Some(fail), login, mail)
    IN  IF fail = "connect" THEN Caught(<<S(<<"connect">>, None, None)>>, "SMTPConnectError")
        ELSE IF fail = "starttls" /\ sender._use_tls
             THEN Caught(<<S(<<"connect", "starttls">>, None, None)>>, "SMTPException")
        ELSE IF fail = "login"
             THEN Caught(<<S(<<"connect">> \o tls \o <<"login">>, cred, None)>>,
                         "SMTPAuthenticationError")
        ELSE LET mail == Some([from_addr |-> sender._username,
                               to_addrs |-> email_job._recipients, msg |-> msg])
                 steps == <<"connect">> \o tls \o <<"login", "sendmail">>
             IN  IF fail = "sendmail"
                 THEN Effect(<<S(steps, cred, mail)>>,
                             SetToBag({<<"Failed to send email", "SMTPRecipientsRefused">>}),
                             Some(msg), None)
                 ELSE Effect(<<Session(sender, steps, None, cred, mail)>>, EmptyBag,
                             Some(msg), None)

\* send_email(email_job, send); fail is what the SMTP exchange will do.  The
\* parameter send is read nowhere in the body.
send_email(email_job, send, fail) ==
    LET sender == ResolveSender(email_job)
    IN  IF sender = None THEN NoSender
        ELSE LET fixed == fix_from_header(Some(get_sender_address(sender[1])))
             IN  IF ~fixed.ok THEN Caught(<<>>, fixed.exc)
                 ELSE IF "_extra_headers" \notin DOMAIN email_job
                      THEN Caught(<<>>, "AttributeError")
                 ELSE Transmit(sender[1], email_job,
                               BuildMessage(email_job, fixed.val), fail)

\* what a send_email call may do, over what the SMTP exchange may do
Outcomes(email_job, send) == {send_email(email_job, send, fail) : fail \in FailPoints}

\* what a send_email call leaves behind
Apply(eff) ==
    /\ smtp' = smtp \o eff.sessions
    /\ errlog' = errlog (+) eff.errors
    /\ email_txt' = IF eff.file # None THEN eff.file ELSE email_txt

(***************************************************************************)
(* Construction                                                            *)
(***************************************************************************)
\* __init__: the default sender is built when MAIL_DEFAULT_SENDER is true
DefaultSenderOf(config) ==
    IF Get(config, "MAIL_DEFAULT_SENDER") # <<>>
    THEN Some(Sender(Get(config, "MAIL_SERVER"), Get(config, "MAIL_PORT"),
                     Get(config, "MAIL_USERNAME"), Get(config, "MAIL_PASSWORD"),
                     Get(config, "MAIL_USE_TLS"), Get(config, "MAIL_DEFAULT_SENDER"),
                     None))
    ELSE None

\* the queue stores with n documents, numbered 1..n
InitialQueues ==
    UNION {{{WithId(f[i], i) : i \in 1..n} : f \in [1..n -> StoredDocs]} : n \in 0..MaxDocs}

NoCall == [op |-> "none", outcome |-> "none"]

Init ==
    /\ \E config \in Configs : default_sender = DefaultSenderOf(config)
    /\ queue \in InitialQueues
    /\ pc = [w \in Workers |-> "off"]
    /\ cur = [w \in Workers |-> None]
    /\ popped = [i \in DocIds |-> 0]
    /\ handed = [i \in DocIds |-> 0]
    /\ smtp = <<>>
    /\ errlog = EmptyBag
    /\ email_txt = None
    /\ last = NoCall
    /\ ncalls = 0
    /\ rt_job = None
    /\ rt_back = None
    /\ arg = None
    /\ res = None

(***************************************************************************)
(* The worker: start_worker and process_queue                              *)
(***************************************************************************)
\* start_worker: a daemon thread begins process_queue
StartWorker(w) ==
    /\ pc[w] = "off"
    /\ pc' = [pc EXCEPT ![w] = "idle"]
    /\ UNCHANGED <<default_sender, queue, cur, popped, handed, smtp, errlog,
                   email_txt, last, ncalls, rt_job, rt_back, arg, res>>

\* a find_one that leaves the document in the collection
QueueAfterPopKept(q, d) == q

\* a delete_many that takes every document with it
QueueAfterPopAll(q, d) == {}

\* the collection after find_one_and_delete returned document d
QueueAfterPop(q, d) == q \ {d}

\* find_one_and_delete({}): one document leaves the store and is returned, in
\* one step of the store; None when the store is empty
Pop(w) ==
    /\ pc[w] = "idle"
    /\ IF queue = {}
       THEN /\ pc' = [pc EXCEPT ![w] = "sleeping"]
            /\ UNCHANGED <<queue, cur, popped>>
       ELSE \E d \in queue :
                /\ queue' = QueueAfterPop(queue, d)
                /\ cur' = [cur EXCEPT ![w] = Some(d)]
                /\ popped' = [popped EXCEPT ![d._id] = @ + 1]
                /\ pc' = [pc EXCEPT ![w] = "sending"]
    /\ UNCHANGED <<default_sender, handed, smtp, errlog, email_txt, last, ncalls,
                   rt_job, rt_back, arg, res>>

\* a document whose send_email logged an error is put back
QueueAfterSendRequeue(q, d, eff) == IF eff.errors # EmptyBag THEN q \cup {d} ELSE q

\* the collection after send_email returned for document d: the except clause
\* logs and does not put the document back
QueueAfterSend(q, d, eff) == q

\* EmailJob.from_dict(email_job_data), then send_email(email_job); nothing in
\* process_queue catches an exception, so one that leaves from_dict or
\* send_email ends the thread
WorkerSend(w) ==
    /\ pc[w] = "sending"
    /\ LET email_job == EmailJob_from_dict_call(cur[w][1])
       IN  IF ~email_job.ok
           THEN /\ pc' = [pc EXCEPT ![w] = "dead"]
                /\ UNCHANGED <<queue, handed, smtp, errlog, email_txt>>
           ELSE /\ \E eff \in Outcomes(email_job.val, TRUE) :
                      /\ Apply(eff)
                      /\ queue' = QueueAfterSend(queue, cur[w][1], eff)
                      /\ pc' = [pc EXCEPT ![w] =
                                  IF eff.raises = None THEN "sleeping" ELSE "dead"]
                /\ handed' = [handed EXCEPT ![cur[w][1]._id] = @ + 1]
    /\ cur' = [cur EXCEPT ![w] = None]
    /\ UNCHANGED <<default_sender, popped, last, ncalls, rt_job, rt_back, arg, res>>

\* time.sleep(5), reached after either branch, then the next iteration
Sleep(w) ==
    /\ pc[w] = "sleeping"
    /\ pc' = [pc EXCEPT ![w] = "idle"]
    /\ UNCHANGED <<default_sender, queue, cur, popped, handed, smtp, errlog,
                   email_txt, last, ncalls, rt_job, rt_back, arg, res>>

(***************************************************************************)
(* The dispatcher: queue_email and send_now, and send_email called directly*)
(***************************************************************************)
Args(t, c, sender, extra_headers, send) ==
    [template_name |-> t, subject |-> "Hi", recipients |-> <<"x@y.com">>,
     context |-> c, sender |-> sender, extra_headers |-> extra_headers, send |-> send]

\* the arguments of queue_email and send_now: a template that renders, in
\* either context, with the defaults (no sender, no extra headers) or with
\* both given; a template that does not, with the defaults
CallArgs ==
    {Args("welcome.tmpl", c, o[1], o[2], b) :
        c \in Contexts, b \in BOOLEAN,
        o \in {<<None, None>>, <<Some(SenderA), Some(<<<<"Reply-To", "r@y.com">>>>)>>}}
    \cup {Args(t, "Jo", None, None, b) :
             t \in TemplateNames \ {"welcome.tmpl"}, b \in BOOLEAN}

\* a failure of the template swallowed, the job built with an empty text
RenderJobSwallowing(a) ==
    EmailJobCall([subject |-> a.subject, recipients |-> a.recipients,
                  body |-> Some(<<>>), html |-> Some(<<>>), sender |-> a.sender,
                  extra_headers |-> a.extra_headers])

\* lines shared by queue_email and send_now: the template is loaded and
\* rendered, and the job is built with the rendered text as body and html
RenderJob(a) ==
    LET template == get_template(a.template_name)
    IN  IF ~template.ok THEN template
        ELSE LET body == render(template.val, a.context)
             IN  IF ~body.ok THEN body
                 ELSE EmailJobCall([subject |-> a.subject, recipients |-> a.recipients,
                                    body |-> Some(body.val), html |-> Some(body.val),
                                    sender |-> a.sender,
                                    extra_headers |-> a.extra_headers])

\* an _id the store holds no document under and has given to none
FreshId == CHOOSE i \in DocIds : popped[i] = 0 /\ \A d \in queue : d._id # i

\* insert_one(document)
QueueAfterInsert(q, data) == q \cup {WithId(data, FreshId)}

Called(op, outcome) ==
    /\ last' = [op |-> op, outcome |-> outcome]
    /\ ncalls' = ncalls + 1

queue_email(a) ==
    /\ ncalls < MaxCalls
    /\ LET job == RenderJob(a)
       IN  IF ~job.ok
           THEN /\ Called("queue_email", job.exc)
                /\ UNCHANGED queue
           ELSE /\ Called("queue_email", "returned")
                /\ queue' = IF a.send
                            THEN QueueAfterInsert(queue, EmailJob_to_dict(job.val))
                            ELSE queue
    /\ UNCHANGED <<default_sender, pc, cur, popped, handed, smtp, errlog, email_txt,
                   rt_job, rt_back, arg, res>>

send_now(a) ==
    /\ ncalls < MaxCalls
    /\ LET job == RenderJob(a)
       IN  IF ~job.ok
           THEN /\ Called("send_now", job.exc)
                /\ UNCHANGED <<smtp, errlog, email_txt>>
           ELSE IF a.send
           THEN \E eff \in Outcomes(job.val, TRUE) :
                    /\ Apply(eff)
                    /\ Called("send_now",
                              IF eff.raises = None THEN "returned" ELSE eff.raises[1])
           ELSE /\ Called("send_now", "returned")
                /\ UNCHANGED <<smtp, errlog, email_txt>>
    /\ UNCHANGED <<default_sender, queue, pc, cur, popped, handed, rt_job, rt_back, arg, res>>

\* the jobs a caller may hand to send_email: built by EmailJob, with the
\* attribute _extra_headers left unassigned or assigned by the caller
WithExtraHeaders(job, h) == job @@ ("_extra_headers" :> h)

DirectJobs ==
    LET built == {EmailJob("Hi", <<"x@y.com">>, b, b, s) :
                      b \in {Some(<<"welcome.tmpl", "Jo">>)}, s \in SenderChoices}
    IN  built \cup {WithExtraHeaders(j, h) : j \in built, h \in ExtraHeaderChoices}

send_email_call(email_job, send) ==
    /\ ncalls < MaxCalls
    /\ \E eff \in Outcomes(email_job, send) :
          /\ Apply(eff)
          /\ Called("send_email",
                    IF eff.raises = None THEN "returned" ELSE eff.raises[1])
    /\ UNCHANGED <<default_sender, queue, pc, cur, popped, handed, rt_job, rt_back, arg, res>>

\* the whole system: the workers and every foreground call
Next ==
    \/ \E w \in Workers : StartWorker(w)
    \/ \E w \in Workers : Pop(w)
    \/ \E w \in Workers : WorkerSend(w)
    \/ \E w \in Workers : Sleep(w)
    \/ \E a \in CallArgs : queue_email(a)
    \/ \E a \in CallArgs : send_now(a)
    \/ \E j \in DirectJobs, send \in BOOLEAN : send_email_call(j, send)

Spec == Init /\ [][Next]_vars

\* the queue store and its users: the workers and queue_email
NextQueue ==
    \/ \E w \in Workers : StartWorker(w)
    \/ \E w \in Workers : Pop(w)
    \/ \E w \in Workers : WorkerSend(w)
    \/ \E w \in Workers : Sleep(w)
    \/ \E a \in CallArgs : queue_email(a)

SpecQueue == Init /\ [][NextQueue]_vars

\* the foreground calls alone
NextCalls ==
    \/ \E a \in CallArgs : queue_email(a)
    \/ \E a \in CallArgs : send_now(a)
    \/ \E j \in DirectJobs, send \in BOOLEAN : send_email_call(j, send)

SpecCalls == Init /\ [][NextCalls]_vars

\* one worker thread and no insert.  The thread is scheduled again and again,
\* and each of its steps ends: WorkerSend is one send_email call, which
\* returns once the SMTP exchange (or the exception before it) is over
NextDrain ==
    \/ StartWorker(1)
    \/ Pop(1)
    \/ WorkerSend(1)
    \/ Sleep(1)

\* WorkerSend(1) is enabled exactly when pc[1] = "sending" and leaves that
\* place, so its weak fairness is: the worker is not in send_email for ever
SendEmailReturns == []<>(pc[1] # "sending")

SpecDrain ==
    /\ Init
    /\ [][NextDrain]_vars
    /\ WF_vars(StartWorker(1))
    /\ WF_vars(Pop(1))
    /\ WF_vars(Sleep(1))
    /\ SendEmailReturns

\* one worker thread and send_email called directly
NextSend ==
    \/ StartWorker(1)
    \/ Pop(1)
    \/ WorkerSend(1)
    \/ Sleep(1)
    \/ \E j \in DirectJobs, send \in BOOLEAN : send_email_call(j, send)

SpecSend == Init /\ [][NextSend]_vars

(***************************************************************************)
(* to_dict and from_dict on their own                                      *)
(***************************************************************************)
SenderB == Sender("smtp.b", 25, "ub", "pb", FALSE, <<"b", "@", "x">>, None)

\* the jobs handed to to_dict: built by EmailJob, with the attribute
\* _extra_headers left unassigned or assigned
RoundTripJobs ==
    LET built == {EmailJob(subject, r, b, h, sender) :
                      subject \in {"Hi", ""},
                      r \in {<<"x@y.com">>, <<"x@y.com", "z@y.com">>, <<"z@y.com", "x@y.com">>},
                      b \in {None, Some(<<"welcome.tmpl", "Jo">>)},
                      h \in {None, Some(<<"welcome.tmpl", "Jo">>)},
                      sender \in {None, Some(SenderA), Some(SenderB)}}
    IN  built \cup {WithExtraHeaders(j, h) : j \in built, h \in ExtraHeaderChoices}

InitRoundTrip ==
    /\ default_sender = None
    /\ queue = {}
    /\ pc = [w \in Workers |-> "off"]
    /\ cur = [w \in Workers |-> None]
    /\ popped = [i \in DocIds |-> 0]
    /\ handed = [i \in DocIds |-> 0]
    /\ smtp = <<>>
    /\ errlog = EmptyBag
    /\ email_txt = None
    /\ last = NoCall
    /\ ncalls = 0
    /\ \E x \in RoundTripJobs : rt_job = Some(x)
    /\ rt_back = None
    /\ arg = None
    /\ res = None

\* EmailJob.from_dict(x.to_dict())
RoundTrip ==
    /\ rt_job # None
    /\ rt_back = None
    /\ rt_back' = Some(EmailJob_from_dict(EmailJob_to_dict(rt_job[1])))
    /\ UNCHANGED <<default_sender, queue, pc, cur, popped, handed, smtp, errlog,
                   email_txt, last, ncalls, rt_job, arg, res>>

SpecRoundTrip == InitRoundTrip /\ [][RoundTrip]_vars

(***************************************************************************)
(* EmailSender.__init__ as one call                                        *)
(***************************************************************************)
\* the configurations a caller may pass as _config_2; MAIL_DEFAULT_SENDER is
\* missing, empty or an address
ConstructConfigs ==
    {ConfigEmpty}
    \cup {[MAIL_SERVER |-> s, MAIL_PORT |-> 25, MAIL_USERNAME |-> "ud",
           MAIL_PASSWORD |-> "pd", MAIL_USE_TLS |-> t, MAIL_DEFAULT_SENDER |-> d] :
             s \in {"smtp.d", "smtp.e"}, t \in BOOLEAN,
             d \in {<<>>, <<"b", "@", "x">>, <<"a", "@", "x">>}}

\* the parameters register_filter requires besides self
RegisterFilterParams == <<"filter">>

\* a call of register_filter with positional arguments args: Python raises
\* TypeError when a required parameter gets no argument
register_filter_call(args) ==
    IF Len(args) = Len(RegisterFilterParams) THEN Returned(None) ELSE Raised("TypeError")

\* before __init__ ran: no attribute is set and no thread runs
InitConstruct ==
    /\ default_sender = None
    /\ queue \in InitialQueues
    /\ pc = [w \in Workers |-> "off"]
    /\ cur = [w \in Workers |-> None]
    /\ popped = [i \in DocIds |-> 0]
    /\ handed = [i \in DocIds |-> 0]
    /\ smtp = <<>>
    /\ errlog = EmptyBag
    /\ email_txt = None
    /\ last = NoCall
    /\ ncalls = 0
    /\ rt_job = None
    /\ rt_back = None
    /\ arg = None
    /\ res = None

\* EmailSender(config, _config_2): the default sender is set, then
\* self.register_filter() is called without an argument, then start_worker()
Construct(config) ==
    /\ last = NoCall
    /\ default_sender' = DefaultSenderOf(config)
    /\ LET registered == register_filter_call(<<>>)
       IN  IF ~registered.ok
           THEN /\ last' = [op |-> "__init__", outcome |-> registered.exc]
                /\ UNCHANGED pc
           ELSE /\ last' = [op |-> "__init__", outcome |-> "returned"]
                /\ pc' = [pc EXCEPT ![1] = "idle"]
    /\ UNCHANGED <<queue, cur, popped, handed, smtp, errlog, email_txt, ncalls,
                   rt_job, rt_back, arg, res>>

NextConstruct == \E config \in ConstructConfigs : Construct(config)

SpecConstruct == InitConstruct /\ [][NextConstruct]_vars

(***************************************************************************)
(* Functions called on their own                                           *)
(***************************************************************************)
\* no EmailSender method has run and no thread runs
NothingRan ==
    /\ default_sender = None
    /\ queue = {}
    /\ pc = [w \in Workers |-> "off"]
    /\ cur = [w \in Workers |-> None]
    /\ popped = [i \in DocIds |-> 0]
    /\ handed = [i \in DocIds |-> 0]
    /\ smtp = <<>>
    /\ errlog = EmptyBag
    /\ email_txt = None
    /\ last = NoCall
    /\ ncalls = 0
    /\ rt_job = None
    /\ rt_back = None

\* display names: none, empty, plain, with a space inside or around, with a
\* bracket
DisplayNames ==
    {None, Some(<<>>), Some(<<"T">>), Some(<<"A", " ", "B">>), Some(<<" ", "T">>),
     Some(<<"T", " ">>), Some(<<"<">>), Some(<<"T", ">">>)}

Addresses ==
    {<<"a", "@", "x">>, <<"b", "@", "x">>, <<>>, <<"a">>, <<"a", " ", "@", "x">>,
     <<"<", "a", "@", "x", ">">>, <<"x">>}

AddressSenders ==
    {Sender("smtp.a", 587, "ua", "pa", TRUE, a, n) : a \in Addresses, n \in DisplayNames}

InitAddress ==
    /\ NothingRan
    /\ \E s \in AddressSenders : arg = Some(s)
    /\ res = None

\* sender.get_sender_address()
GetSenderAddress ==
    /\ arg # None
    /\ res = None
    /\ res' = Some(get_sender_address(arg[1]))
    /\ UNCHANGED <<default_sender, queue, pc, cur, popped, handed, smtp, errlog,
                   email_txt, last, ncalls, rt_job, rt_back, arg>>

SpecAddress == InitAddress /\ [][GetSenderAddress]_vars

\* the From identities handed to fix_from_header, by their parts: a name (with
\* the space that follows it), the opening brackets, an address, the closing
\* brackets
IdentityParts ==
    [name : {<<>>, <<"T">>, <<"T", " ">>, <<" ", "T">>, <<"T", " ", "a", " ">>,
             <<"a", "@", " ">>, <<"T", " ", "b">>, <<"a", "b", " ">>},
     open : {<<>>, <<"<">>, <<"<", "<">>},
     address : {<<"a", "@", "x">>, <<"x">>},
     close : {<<>>, <<">">>, <<">", ">">>}]

\* the str made of the parts
IdentityOf(p) == p.name \o p.open \o p.address \o p.close

InitHeader ==
    /\ NothingRan
    /\ \E p \in IdentityParts : arg = Some(p)
    /\ res = None

\* fix_from_header(from_address)
FixFromHeader ==
    /\ arg # None
    /\ res = None
    /\ res' = Some(fix_from_header(Some(IdentityOf(arg[1]))))
    /\ UNCHANGED <<default_sender, queue, pc, cur, popped, handed, smtp, errlog,
                   email_txt, last, ncalls, rt_job, rt_back, arg>>

SpecHeader == InitHeader /\ [][FixFromHeader]_vars

(***************************************************************************)
(* The worker on a store that other programs write to as well              *)
(***************************************************************************)
\* documents no to_dict wrote: the sender is a str, or the sender is an empty
\* dict and body and html are missing
ForeignDocs ==
    {[subject |-> "Hi", recipients |-> <<"x@y.com">>, body |-> Some(<<"welcome.tmpl", "Jo">>),
      html |-> None, sender |-> Some(StrValue("a@x"))],
     [subject |-> "Hi", recipients |-> <<"x@y.com">>, sender |-> Some(<<>>)]}

\* the stores with n documents of either kind, numbered 1..n
LoopQueues ==
    UNION {{{WithId(f[i], i) : i \in 1..n} : f \in [1..n -> StoredDocs \cup ForeignDocs]} :
              n \in 0..MaxDocs}

InitLoop ==
    /\ \E config \in Configs : default_sender = DefaultSenderOf(config)
    /\ queue \in LoopQueues
    /\ pc = [w \in Workers |-> "off"]
    /\ cur = [w \in Workers |-> None]
    /\ popped = [i \in DocIds |-> 0]
    /\ handed = [i \in DocIds |-> 0]
    /\ smtp = <<>>
    /\ errlog = EmptyBag
    /\ email_txt = None
    /\ last = NoCall
    /\ ncalls = 0
    /\ rt_job = None
    /\ rt_back = None
    /\ arg = None
    /\ res = None

SpecLoop == InitLoop /\ [][NextQueue]_vars

(***************************************************************************)
(* _die_when_done                                                          *)
(***************************************************************************)
\* _die_when_done: count_documents is polled until it gives 0, then exit(0)
\* ends the process and with it the daemon threads, wherever they are
die_when_done ==
    /\ last.outcome # "exit"
    /\ Cardinality(queue) = 0
    /\ last' = [op |-> "_die_when_done", outcome |-> "exit"]
    /\ pc' = [w \in Workers |-> "killed"]
    /\ UNCHANGED <<default_sender, queue, cur, popped, handed, smtp, errlog,
                   email_txt, ncalls, rt_job, rt_back, arg, res>>

\* the workers and one caller of _die_when_done
NextDie ==
    \/ \E w \in Workers : StartWorker(w)
    \/ \E w \in Workers : Pop(w)
    \/ \E w \in Workers : WorkerSend(w)
    \/ \E w \in Workers : Sleep(w)
    \/ die_when_done

SpecDie == Init /\ [][NextDie]_vars

(***************************************************************************)
(* send_email for jobs that carry extra headers                            *)
(***************************************************************************)
\* the dicts of extra headers, as their items in order: none, empty, two
\* headers in either order, a header named like a required one
HeaderDicts ==
    {None, Some(<<>>),
     Some(<<<<"Reply-To", "r@y.com">>, <<"X-Campaign", "c1">>>>),
     Some(<<<<"X-Campaign", "c1">>, <<"Reply-To", "r@y.com">>>>),
     Some(<<<<"Subject", "Other">>, <<"Reply-To", "r@y.com">>>>)}

\* jobs with _extra_headers assigned, with and without a sender of their own
HeaderJobs ==
    {WithExtraHeaders(EmailJob("Hi", <<"x@y.com", "z@y.com">>,
                               Some(<<"welcome.tmpl", "Jo">>), None, s), h) :
        s \in {None, Some(SenderA)}, h \in HeaderDicts}

NextHeaders == \E j \in HeaderJobs, send \in BOOLEAN : send_email_call(j, send)

\* an EmailSender on a queue store that is empty or holds one document
InitHeaders == Init /\ Cardinality(queue) <= 1

SpecHeaders == InitHeaders /\ [][NextHeaders]_vars

(***************************************************************************)
(* One worker and concurrent queue_email calls                             *)
(***************************************************************************)
\* worker 1 and the foreground callers of queue_email.  The thread is
\* scheduled again and again and each send_email call ends
NextStall ==
    \/ StartWorker(1)
    \/ Pop(1)
    \/ WorkerSend(1)
    \/ Sleep(1)
    \/ \E a \in CallArgs : queue_email(a)

SpecStall ==
    /\ Init
    /\ [][NextStall]_vars
    /\ WF_vars(StartWorker(1))
    /\ WF_vars(Pop(1))
    /\ WF_vars(Sleep(1))
    /\ SendEmailReturns

(***************************************************************************)
(* The claims                                                              *)
(***************************************************************************)
InQueue(i) == \E d \in queue : d._id = i

\* get_template and render both return for the arguments a
Renders(a) ==
    /\ get_template(a.template_name).ok
    /\ render(get_template(a.template_name).val, a.context).ok

RenderedText(a) == render(get_template(a.template_name).val, a.context).val

DefaultArgs(a) == a.sender = None /\ a.extra_headers = None /\ a.send

\* C1: queue_email(template, subject, [r], context) with the default
\* arguments and a configured default sender returns and leaves one new
\* document for [r] with the rendered text; the worker iteration that handles
\* such a document opens exactly one SMTP session, to the default sender's
\* server, and what it transmits goes to [r] with the rendered text as body.
C1_EndToEnd ==
    /\ [][\A a \in CallArgs :
            (queue_email(a) /\ DefaultArgs(a) /\ Renders(a) /\ default_sender # None)
            => /\ last'.outcome = "returned"
               /\ \E d \in queue' \ queue :
                     /\ queue' = queue \cup {d}
                     /\ d.recipients = a.recipients
                     /\ d.body = Some(RenderedText(a))
                     /\ d.sender = None]_vars
    /\ [][\A w \in Workers :
            (WorkerSend(w) /\ cur[w][1].sender = None /\ default_sender # None)
            => /\ Len(smtp') = Len(smtp) + 1
               /\ LET s == smtp'[Len(smtp')]
                  IN  /\ s.host = default_sender[1]._email_server
                      /\ s.port = default_sender[1]._email_port
                      /\ s.mail # None =>
                            /\ s.mail[1].to_addrs = cur[w][1].recipients
                            /\ \E k \in 1..Len(s.mail[1].msg.parts) :
                                  s.mail[1].msg.parts[k] = <<"plain", cur[w][1].body[1]>>]_vars

\* the store is empty and every document popped was handed to send_email
Drained ==
    /\ queue = {}
    /\ \A w \in Workers : cur[w] = None
    /\ \A i \in DocIds : handed[i] = popped[i]

\* C2: with one worker and no insert, no document is ever popped or handed to
\* send_email twice, a document leaves the store only by being popped, and in
\* the end the store is empty for good and every document that left it was
\* handed to send_email: each of the N documents exactly once.
C2_QueueDraining ==
    /\ [](\A i \in DocIds : popped[i] <= 1 /\ handed[i] <= popped[i])
    /\ [][\A i \in DocIds :
            (InQueue(i) /\ ~InQueue(i)') => popped'[i] = popped[i] + 1]_vars
    /\ <>[]Drained

\* two documents were drained
C2_Witness == queue = {} /\ handed[1] = 1 /\ handed[2] = 1

\* C3: whatever the workers and queue_email do, no document is returned by
\* more than one find_one_and_delete, none is handed to send_email more than
\* once, and no two workers hold the same document.
C3_PopOnce ==
    /\ \A i \in DocIds : popped[i] <= 1 /\ handed[i] <= 1
    /\ \A w1, w2 \in Workers :
          (w1 # w2 /\ cur[w1] # None /\ cur[w2] # None)
          => cur[w1][1]._id # cur[w2][1]._id

\* two workers are in send_email at once, each with a document
C3_Witness == cur[1] # None /\ cur[2] # None

\* the sender send_email is to use for a job
Resolved(email_job) ==
    IF email_job._sender # None THEN email_job._sender ELSE default_sender

\* session s goes to the sender's server and port, upgrades to TLS exactly
\* when the sender's flag is set, and logs in with the sender's credentials
SessionOf(s, sender) ==
    /\ s.host = sender._email_server
    /\ s.port = sender._email_port
    /\ s.failed # Some("connect") => (Contains(s.steps, "starttls") <=> sender._use_tls)
    /\ s.login # None => s.login[1] = <<sender._username, sender._password>>

\* the step made by a send_email call for email_job uses the resolved sender
UsesResolved(email_job) ==
    \A k \in (Len(smtp) + 1)..Len(smtp') :
        Resolved(email_job) # None /\ SessionOf(smtp'[k], Resolved(email_job)[1])

\* the step made by a send_email call for a job without sender, with a
\* default sender configured, opens one session, as the default sender
FallsBack(email_job) ==
    (email_job._sender = None /\ default_sender # None)
    => /\ Len(smtp') = Len(smtp) + 1
       /\ SessionOf(smtp'[Len(smtp')], default_sender[1])

\* C4: every session a send_email call opens is that of the job's own sender
\* when it has one and of the default sender otherwise, and a job without
\* sender is transmitted as the default sender when one is configured.
C4_SenderResolution ==
    [][/\ \A w \in Workers :
            WorkerSend(w) => /\ UsesResolved(EmailJob_from_dict(cur[w][1]))
                             /\ FallsBack(EmailJob_from_dict(cur[w][1]))
       /\ \A j \in DirectJobs, send \in BOOLEAN :
            send_email_call(j, send) => UsesResolved(j) /\ FallsBack(j)]_vars

\* the step made by a send_email call for a job without any sender opens no
\* session, writes no file and logs the one error
Skipped(email_job) ==
    (email_job._sender = None /\ default_sender = None)
    => /\ smtp' = smtp
       /\ email_txt' = email_txt
       /\ errlog' = errlog (+) SetToBag({NoSenderRecord})

\* C5: a send_email call for a job without sender, with no default sender,
\* opens no SMTP session, logs the error and returns: the worker goes on to
\* its sleep and the direct caller sees the call return.
C5_NoSender ==
    [][/\ \A w \in Workers :
            (pc[w] = "sending" /\ cur[w][1].sender = None /\ default_sender = None
             /\ WorkerSend(w))
            => Skipped(EmailJob_from_dict(cur[w][1])) /\ pc'[w] = "sleeping"
       /\ \A j \in DirectJobs, send \in BOOLEAN :
            (ncalls' = ncalls + 1 /\ j._sender = None /\ default_sender = None
             /\ send_email_call(j, send))
            => Skipped(j) /\ last'.outcome = "returned"]_vars

\* both callers met the case: a worker for document 1, then a direct call
C5_Witness ==
    /\ default_sender = None
    /\ handed[1] = 1
    /\ last = [op |-> "send_email", outcome |-> "returned"]
    /\ CopiesIn(NoSenderRecord, errlog) = 2

\* C6: a send_now call whose template renders returns normally.
C6_SendNowReturns ==
    [][\A a \in CallArgs :
          (send_now(a) /\ Renders(a)) => last'.outcome = "returned"]_vars

\* C7: a queue_email or send_now call whose template is not found or does
\* not render ends with that exception, and the queue store, the SMTP
\* sessions, the error log and email.txt are as before.
C7_TemplateFailure ==
    [][\A a \in CallArgs :
          ((queue_email(a) \/ send_now(a)) /\ ~Renders(a))
          => /\ last'.outcome = IF get_template(a.template_name).ok
                                THEN "UndefinedError" ELSE "TemplateNotFound"
             /\ queue' = queue
             /\ smtp' = smtp
             /\ errlog' = errlog
             /\ email_txt' = email_txt]_vars

\* a queue_email call ended with TemplateNotFound
C7_Witness == last = [op |-> "queue_email", outcome |-> "TemplateNotFound"]

\* C8: a document a worker holds is not in the store, no document is handed
\* to send_email twice, and a document enters the store only in a queue_email
\* step and under an _id that was never popped.
C8_OneAttempt ==
    /\ [](\A w \in Workers : cur[w] # None => cur[w][1] \notin queue)
    /\ [](\A i \in DocIds : handed[i] <= 1)
    /\ [][\A d \in queue' \ queue :
            /\ \E a \in CallArgs : queue_email(a)
            /\ popped[d._id] = 0]_vars

\* send_email failed for document 1 and the document is gone
C8_Witness == handed[1] = 1 /\ errlog # EmptyBag /\ ~InQueue(1)

\* a job's extra headers: None when the attribute was never assigned
ExtraHeadersOf(email_job) ==
    IF "_extra_headers" \in DOMAIN email_job THEN email_job._extra_headers ELSE None

\* C9: from_dict(x.to_dict()) has x's subject, recipients in x's order, body
\* and html, no sender when x has none and else a sender equal to x's in all
\* seven attributes, and x's extra headers.
C9_RoundTrip ==
    rt_back # None =>
        LET x == rt_job[1]
            y == rt_back[1]
        IN  /\ y._subject = x._subject
            /\ y._recipients = x._recipients
            /\ y._body = x._body
            /\ y._html = x._html
            /\ (x._sender = None) <=> (y._sender = None)
            /\ x._sender # None =>
                  \A f \in {"_email_server", "_email_port", "_username", "_password",
                             "_use_tls", "_email_address", "_display_name"} :
                      y._sender[1][f] = x._sender[1][f]
            /\ ExtraHeadersOf(y) = ExtraHeadersOf(x)

\* C10: with send false, queue_email leaves the queue store as it is, and
\* send_now and send_email open no SMTP session.
C10_DryRun ==
    [][/\ \A a \in CallArgs :
            (~a.send /\ queue_email(a)) => queue' = queue
       /\ \A a \in CallArgs :
            (~a.send /\ send_now(a)) => smtp' = smtp
       /\ \A j \in DirectJobs :
            send_email_call(j, FALSE) => smtp' = smtp]_vars

\* C11: a construction returns normally, leaves exactly one worker loop
\* running, and leaves default_sender set exactly when MAIL_DEFAULT_SENDER is
\* configured.
C11_Construction ==
    [][\A config \in ConstructConfigs :
          Construct(config)
          => /\ last'.outcome = "returned"
             /\ Cardinality({w \in Workers : pc'[w] # "off"}) = 1
             /\ (default_sender' # None)
                <=> StrTruthy(Some(Get(config, "MAIL_DEFAULT_SENDER")))]_vars

\* C12: get_sender_address gives the display name, one space and the address
\* between "<" and ">" when the sender has a display name (one that is not
\* empty), and the address itself, nothing added, when it has none.
C12_SenderAddress ==
    res # None =>
        LET name == arg[1]._display_name
            address == arg[1]._email_address
            r == res[1]
        IN  IF name # None /\ Len(name[1]) > 0
            THEN LET n == Len(name[1])
                 IN  /\ Len(r) = n + Len(address) + 3
                     /\ SubSeq(r, 1, n) = name[1]
                     /\ r[n + 1] = " "
                     /\ r[n + 2] = "<"
                     /\ SubSeq(r, n + 3, Len(r) - 1) = address
                     /\ r[Len(r)] = ">"
            ELSE r = address

\* the address of a sender named "A B"
C12_Witness ==
    /\ res # None
    /\ arg[1]._display_name = Some(<<"A", " ", "B">>)
    /\ res[1] = <<"A", " ", "B", " ", "<", "a", "@", "x", ">">>

\* a name in front of one address between "<" and ">"
WellFormed(p) == p.open = <<"<">> /\ p.close = <<">">>

\* an address and nothing else
Bare(p) == p.name = <<>> /\ p.open = <<>> /\ p.close = <<>>

\* only "<", only ">", or brackets that do not pair up
Malformed(p) == (p.open # <<>> \/ p.close # <<>>) /\ ~WellFormed(p)

\* one piece of an encoded word, decoded
QDecode(t) ==
    IF t = "_" THEN " "
    ELSE IF t = "=3C" THEN "<"
    ELSE IF t = "=3E" THEN ">"
    ELSE IF t = "=40" THEN "@"
    ELSE t

\* the text of a display name as a mail reader decodes it
DecodeWord(w) ==
    IF w # <<>> /\ Head(w) = "=?utf-8?q?" /\ w[Len(w)] = "?="
    THEN [k \in 1..(Len(w) - 2) |-> QDecode(w[k + 1])]
    ELSE w

\* a From header taken apart as a mail reader does: the display name in front
\* of the bracketed address, or an address alone
Decompose(h) ==
    IF h # <<>> /\ h[Len(h)] = ">" /\ Contains(h, "<")
    THEN LET i == Place(h, "<", 1)
         IN  [name |-> DecodeWord(IF i > 2 THEN SubSeq(h, 1, i - 2) ELSE <<>>),
              address |-> SubSeq(h, i + 1, Len(h) - 1)]
    ELSE [name |-> <<>>, address |-> h]

\* C13: for a display name followed by an address between "<" and ">",
\* fix_from_header returns a header that decomposes into the display name
\* without its surrounding spaces and the address without any bracket; for an
\* address alone it returns that address with an empty display name.
C13_HeaderNormalization ==
    res # None =>
        LET p == arg[1]
        IN  /\ WellFormed(p) =>
                 /\ res[1].ok
                 /\ Decompose(res[1].val[1]) =
                       [name |-> Strip(p.name), address |-> p.address]
            /\ Bare(p) =>
                 /\ res[1].ok
                 /\ Decompose(res[1].val[1]) = [name |-> <<>>, address |-> p.address]

\* "T a <a@x>" was normalized to the encoded word of "T a" and <a@x>
C13_Witness ==
    /\ res # None
    /\ IdentityOf(arg[1]) = <<"T", " ", "a", " ", "<", "a", "@", "x", ">">>
    /\ res[1] = Returned(Some(<<"=?utf-8?q?", "T", "_", "a", "?=", " ", "<", "a", "@", "x", ">">>))

\* the exceptions of the SMTP exchange
TransportErrors ==
    {"SMTPConnectError", "SMTPException", "SMTPAuthenticationError", "SMTPRecipientsRefused"}

\* C14: for an identity with only "<", only ">" or brackets that do not pair
\* up, fix_from_header raises an error that is no transport error and returns
\* no header.
C14_MalformedIdentity ==
    (res # None /\ Malformed(arg[1]))
    => ~res[1].ok /\ res[1].exc \notin TransportErrors

\* C15: no worker thread ever ends: whatever document it popped, the worker
\* is polling, holding a document or waiting, and so goes on to later
\* documents.
C15_NoTerminalState == \A w \in Workers : pc[w] # "dead"

\* C16: a worker begins its wait only from an empty pop, and when send_email
\* has returned for a popped document the worker is back at polling, without
\* waiting.
C16_WaitOnlyWhenEmpty ==
    [][\A w \in Workers :
          /\ (pc[w] # "sleeping" /\ pc'[w] = "sleeping") => (pc[w] = "idle" /\ queue = {})
          /\ (pc[w] = "sending" /\ pc'[w] \notin {"sending", "dead"}) => pc'[w] = "idle"]_vars

\* C17: when _die_when_done has ended the process, every document that was
\* popped has had its send_email call return: no worker was holding one.
C17_DrainAndStop ==
    last.outcome = "exit"
    => /\ \A i \in DocIds : handed[i] = popped[i]
       /\ \A w \in Workers : cur[w] = None

\* C18: apart from the queue store, no step of a worker or of a foreground
\* call writes state that another transmission reads or writes: the file
\* email.txt and default_sender stay as they are, and a document a worker
\* holds is not changed while it holds it.
C18_NoSharedWrites ==
    [][/\ email_txt' = email_txt
       /\ default_sender' = default_sender
       /\ \A w \in Workers : (cur[w] # None /\ cur'[w] # None) => cur'[w] = cur[w]]_vars

\* the From header send_email sets for a job
FromOf(email_job) ==
    fix_from_header(Some(get_sender_address(Resolved(email_job)[1]))).val

\* C19: a send_email call for a job with extra headers and a sender it can
\* resolve opens a session, and the message it hands over has Subject, From
\* and To first, with the values of the job and the sender, then every extra
\* header in stored order; unless the SMTP exchange fails, the message is
\* handed to sendmail.
C19_ExtraHeaders ==
    [][\A j \in HeaderJobs :
          (/\ ncalls' = ncalls + 1
           /\ Truthy(j._extra_headers)
           /\ Resolved(j) # None
           /\ send_email_call(j, TRUE))
          => /\ Len(smtp') = Len(smtp) + 1
             /\ LET s == smtp'[Len(smtp')]
                IN  /\ s.failed = None => s.mail # None
                    /\ s.mail # None =>
                         LET headers == s.mail[1].msg.headers
                         IN  /\ Len(headers) = 3 + Len(j._extra_headers[1])
                             /\ headers[1] = <<"Subject", j._subject>>
                             /\ headers[2] = <<"From", FromOf(j)>>
                             /\ headers[3] = <<"To", Join(", ", j._recipients)>>
                             /\ SubSeq(headers, 4, Len(headers)) = j._extra_headers[1]]_vars

\* a message with an extra header named Subject was handed to sendmail
C19_Witness ==
    /\ last = [op |-> "send_email", outcome |-> "returned"]
    /\ smtp # <<>>
    /\ LET s == smtp[Len(smtp)]
       IN  /\ s.failed = None
           /\ s.mail # None
           /\ Len(s.mail[1].msg.headers) = 5
           /\ s.mail[1].msg.headers[4] = <<"Subject", "Other">>

\* the steps of an exchange with or without the TLS upgrade
FullExchange(tls) ==
    <<"connect">> \o (IF tls THEN <<"starttls">> ELSE <<>>) \o <<"login", "sendmail">>

\* the steps of session s are the first n steps of an exchange, all of them
\* when no step failed, and up to the step that failed when one did
OrderedSteps(s) ==
    \E tls \in BOOLEAN : \E n \in 1..Len(FullExchange(tls)) :
        /\ s.steps = SubSeq(FullExchange(tls), 1, n)
        /\ s.failed = None => n = Len(FullExchange(tls))
        /\ s.failed # None => s.failed[1] = s.steps[n]
        /\ Contains(s.steps, "login") <=> s.login # None
        /\ Contains(s.steps, "sendmail") <=> s.mail # None

\* session s upgrades the connection exactly when the sender's flag is set
TlsAsFlag(s, sender) ==
    s.failed # Some("connect") => (Contains(s.steps, "starttls") <=> sender._use_tls)

\* C20: in every session the steps are connect, the TLS upgrade, login and
\* sendmail in that order, nothing follows a step that failed, sendmail comes
\* only after a login that succeeded, and the TLS upgrade is made exactly when
\* the resolved sender's flag is set.
C20_SessionOrder ==
    /\ [](\A k \in 1..Len(smtp) : OrderedSteps(smtp[k]))
    /\ [][\A j \in HeaderJobs :
            (/\ ncalls' = ncalls + 1
             /\ Len(smtp') = Len(smtp) + 1
             /\ send_email_call(j, TRUE))
            => TlsAsFlag(smtp'[Len(smtp')], Resolved(j)[1])]_vars

\* a session with the TLS upgrade went through all four steps
C20_Witness ==
    /\ smtp # <<>>
    /\ smtp[Len(smtp)].steps = <<"connect", "starttls", "login", "sendmail">>
    /\ smtp[Len(smtp)].failed = None

\* C21: while worker 1 is inside send_email, a queue_email call with a
\* template that renders and send true returns and leaves one more document
\* in the store, and every document in the store is popped in the end.
C21_NoBlocking ==
    /\ [][\A a \in CallArgs :
            (/\ ncalls' = ncalls + 1
             /\ pc[1] = "sending"
             /\ a.send
             /\ Renders(a)
             /\ queue_email(a))
            => /\ last'.outcome = "returned"
               /\ Cardinality(queue') = Cardinality(queue) + 1
               /\ queue \subseteq queue'
               /\ pc' = pc]_vars
    /\ \A i \in DocIds : [](InQueue(i) => <>(popped[i] = 1))
====
